---- MODULE Spec2Model ----
(***************************************************************************)
(* Model of data_scraping.py: a Streamlit script that is re-executed from  *)
(* top to bottom on every user interaction.  Widget values persist between *)
(* runs; the script's locals (df, headers, json_body) are rebuilt by each  *)
(* run.  One run is the sequence  tab1 -> tab2 -> export -> idle.          *)
(***************************************************************************)
EXTENDS Naturals, Sequences, FiniteSets, TLC

\* ------------------------------------------------------------------ bounds
\* longest JSON list in a response, and most lines in a JSON file
MaxRecords == 2

\* ------------------------------------------------------------------ values
Fields == {"a", "b"}
\* "EUR" stands for a text holding U+20AC, which latin-1 cannot encode
CellValues == {"v", "EUR"}
Absent == "<absent>"
NaN == "NaN"

\* a JSON object: each field is absent or holds a value
EmptyRecord == [a |-> Absent, b |-> Absent]
Records == {EmptyRecord, [a |-> "v", b |-> Absent], [a |-> Absent, b |-> "EUR"]}
Keys(rec) == {f \in Fields : rec[f] # Absent}

SeqsUpTo(S, n) == UNION {[1..k -> S] : k \in 0..n}

\* ------------------------------------------------------------------ DataFrame
EmptyDataFrame == [columns |-> {}, rows |-> <<>>]

\* DataFrame.empty: some axis has length 0
DfEmpty(d) == d.columns = {} \/ Len(d.rows) = 0

DataFrameOfFirstKeys(items) ==
    LET cols == IF Len(items) = 0 THEN {} ELSE Keys(items[1])
    IN  [columns |-> cols,
         rows |-> [i \in 1..Len(items) |->
                     [c \in cols |-> IF items[i][c] = Absent THEN NaN
                                     ELSE items[i][c]]]]

\* pd.DataFrame(list of dicts): one row per record, the columns are the union
\* of the keys, a missing key gives NaN
DataFrameOf(items) ==
    LET cols == UNION {Keys(items[i]) : i \in 1..Len(items)}
    IN  [columns |-> cols,
         rows |-> [i \in 1..Len(items) |->
                     [c \in cols |-> IF items[i][c] = Absent THEN NaN
                                     ELSE items[i][c]]]]

\* ------------------------------------------------------------------ fetch
\* what the network does with a request
NoResponse == [status |-> "none", kind |-> "none", rec |-> EmptyRecord, items |-> <<>>]
Responses ==
    {[status |-> s, kind |-> "none", rec |-> EmptyRecord, items |-> <<>>] :
        s \in {"conn_error", "http_error"}}
    \cup {[status |-> "ok", kind |-> k, rec |-> EmptyRecord, items |-> <<>>] :
        k \in {"invalid", "scalar"}}
    \cup {[status |-> "ok", kind |-> "dict", rec |-> r, items |-> <<>>] : r \in Records}
    \cup {[status |-> "ok", kind |-> "list", rec |-> EmptyRecord, items |-> it] :
        it \in SeqsUpTo(Records, MaxRecords)}

FetchTryNoDefault(net) ==
    IF net.status = "conn_error" THEN [exc |-> "ConnectionError", df |-> EmptyDataFrame]
    ELSE IF net.status = "http_error" THEN [exc |-> "HTTPError", df |-> EmptyDataFrame]
    ELSE IF net.kind = "invalid" THEN [exc |-> "JSONDecodeError", df |-> EmptyDataFrame]
    ELSE IF net.kind = "list" THEN [exc |-> "none", df |-> DataFrameOf(net.items)]
    ELSE IF net.kind = "dict" THEN [exc |-> "none", df |-> DataFrameOf(<<net.rec>>)]
    ELSE [exc |-> "ValueError", df |-> EmptyDataFrame]

\* the body of the try block (requests.get or requests.post by method, then
\* raise_for_status, response.json() and the shape dispatch): the exception it
\* ends with, and the frame built
FetchTry(net) ==
    IF net.status = "conn_error" THEN [exc |-> "ConnectionError", df |-> EmptyDataFrame]
    ELSE IF net.status = "http_error" THEN [exc |-> "HTTPError", df |-> EmptyDataFrame]
    ELSE IF net.kind = "invalid" THEN [exc |-> "JSONDecodeError", df |-> EmptyDataFrame]
    ELSE IF net.kind = "list" THEN [exc |-> "none", df |-> DataFrameOf(net.items)]
    ELSE IF net.kind = "dict" THEN [exc |-> "none", df |-> DataFrameOf(<<net.rec>>)]
    ELSE [exc |-> "none", df |-> EmptyDataFrame]

fetch_api_data_uncaught(u, m, h, b, net) ==
    LET t == FetchTry(net)
    IN  [raised |-> t.exc # "none" /\ t.exc # "JSONDecodeError",
         error |-> t.exc = "JSONDecodeError",
         df |-> IF t.exc = "none" THEN t.df ELSE EmptyDataFrame]

\* try ... except Exception: st.error(...); return pd.DataFrame()
fetch_api_data(u, m, h, b, net) ==
    LET t == FetchTry(net)
    IN  [raised |-> FALSE,
         error |-> t.exc # "none",
         df |-> IF t.exc = "none" THEN t.df ELSE EmptyDataFrame]

\* ------------------------------------------------------------------ tab 1 inputs
UrlTexts == {"", "u"}
Methods == {"GET", "POST"}
\* the texts a user may type in the headers / body areas; '{}' is the default
JsonTexts == {"{}", "{oops"}
None == "None"

\* json.loads of a text-area value
json_loads_text(text) ==
    IF text = "{}" THEN [exc |-> "none", value |-> "{}"]
    ELSE [exc |-> "JSONDecodeError", value |-> None]

parse_or_default(text) ==
    LET r == json_loads_text(text) IN IF r.exc = "none" THEN r.value ELSE "{}"

\* try: x = json.loads(text)  except: x = None
parse_or_none(text) ==
    LET r == json_loads_text(text) IN IF r.exc = "none" THEN r.value ELSE None

NoCall == [called |-> FALSE, url |-> "", method |-> "GET", headers |-> None,
           json_body |-> None]

\* ------------------------------------------------------------------ files
\* one line of a JSON file: a complete object, a complete scalar, or text that
\* is no JSON value
LineRecords == Records \ {EmptyRecord}
ObjLines == {[kind |-> "obj", rec |-> r] : r \in LineRecords}
JunkLine == [kind |-> "junk", rec |-> EmptyRecord]
ScalarLine == [kind |-> "scalar", rec |-> EmptyRecord]
JsonContents ==
    {<<ScalarLine>>}
    \cup (SeqsUpTo(ObjLines \cup {JunkLine}, MaxRecords) \ {<<>>})

\* the grid a .csv / .xlsx file holds
Grids == {"table", "headeronly", "malformed"}
NoFile == [ext |-> "none", grid |-> "none", lines |-> <<>>]
UploadedFiles ==
    {[ext |-> e, grid |-> g, lines |-> <<>>] : e \in {"csv", "xlsx"}, g \in Grids}
    \cup {[ext |-> "json", grid |-> "none", lines |-> l] : l \in JsonContents}

\* what a local path holds when the script opens it
MissingFile == [exists |-> FALSE, lines |-> <<>>]
PathContents == {MissingFile} \cup {[exists |-> TRUE, lines |-> l] : l \in JsonContents}

\* pd.read_csv / pd.read_excel
read_grid(g) ==
    IF g = "table"
    THEN [exc |-> "none",
          df |-> [columns |-> Fields, rows |-> <<[c \in Fields |-> "v"]>>]]
    ELSE IF g = "headeronly"
    THEN [exc |-> "none", df |-> [columns |-> Fields, rows |-> <<>>]]
    ELSE [exc |-> "ParserError", df |-> EmptyDataFrame]

\* pd.json_normalize(json.loads(json_str)): the text is one document only when
\* it is a single complete value; a scalar document cannot be normalised
single_document(lines) ==
    IF Len(lines) = 1 /\ lines[1].kind = "obj"
    THEN [exc |-> "none", df |-> DataFrameOf(<<lines[1].rec>>)]
    ELSE IF Len(lines) = 1 /\ lines[1].kind = "scalar"
    THEN [exc |-> "NotImplementedError", df |-> EmptyDataFrame]
    ELSE [exc |-> "JSONDecodeError", df |-> EmptyDataFrame]

\* pd.read_json(..., lines=True)
read_json_lines(lines) ==
    IF \E i \in 1..Len(lines) : lines[i].kind = "junk"
    THEN [exc |-> "ValueError", df |-> EmptyDataFrame]
    ELSE IF \E i \in 1..Len(lines) : lines[i].kind = "scalar"
    THEN [exc |-> "none",
          df |-> [columns |-> {"0"}, rows |-> [i \in 1..Len(lines) |-> ("0" :> "v")]]]
    ELSE [exc |-> "none",
          df |-> DataFrameOf([i \in 1..Len(lines) |-> lines[i].rec])]

inner_except_any(exc) == TRUE

\* except json.JSONDecodeError:
inner_except(exc) == exc = "JSONDecodeError"

\* the two-stage parse, given the outcome of the single-document stage and
\* of the line-delimited stage: the stages attempted, the exception that
\* leaves the inner try, and the frame assigned (when none does)
two_stage(first, fallback) ==
    IF first.exc = "none"
    THEN [stages |-> <<"single">>, exc |-> "none", df |-> first.df]
    ELSE IF inner_except(first.exc)
    THEN [stages |-> <<"single", "lines">>, exc |-> fallback.exc, df |-> fallback.df]
    ELSE [stages |-> <<"single">>, exc |-> first.exc, df |-> EmptyDataFrame]

\* uploaded_file.seek(0)
SeekStart == 0

\* the .json branch of an upload: read() consumes the buffer, seek(0) rewinds
\* it, read_json reads from the position on
upload_json(lines) ==
    two_stage(single_document(lines),
              read_json_lines(SubSeq(lines, SeekStart + 1, Len(lines))))

FileNotFound == [exc |-> "FileNotFoundError", df |-> EmptyDataFrame]

\* the local-path branch: open(json_path) and read, then read_json(json_path)
path_json(c) ==
    two_stage(IF c.exists THEN single_document(c.lines) ELSE FileNotFound,
              IF c.exists THEN read_json_lines(c.lines) ELSE FileNotFound)

NoRead == [mode |-> "none", exists |-> FALSE, lines |-> <<>>, stages |-> <<>>]

\* ------------------------------------------------------------------ encoders
Encoders == <<"csv", "excel", "word", "pdf">>
Formats == {Encoders[i] : i \in 1..Len(Encoders)}

Latin1(text) == text # "EUR"

\* export_to_pdf ends in an encode to latin-1 of everything it was asked to
\* print: it raises UnicodeEncodeError when a cell cannot be encoded
export_to_pdf_raises(d) ==
    \E i \in 1..Len(d.rows) : \E c \in d.columns : ~Latin1(d.rows[i][c])

\* whether the encoder of format f raises on frame d
encoder_raises(f, d) == f = "pdf" /\ export_to_pdf_raises(d)

export_guard_none(d) == TRUE

\* if not df.empty:
export_guard(d) == ~DfEmpty(d)

\* ------------------------------------------------------------------ state
VARIABLES
    pc,             \* "idle" between runs, else the section the run is about to execute
    trigger,        \* the interaction that started the run
    url, method, headers_input, json_input, uploaded_file, json_path,  \* widgets
    headers, json_body, df,                                            \* script locals
    response,       \* what the network answered to this run's fetch
    fetchArgs,      \* the arguments of this run's call of fetch_api_data
    assigned,       \* the input modes that assigned df in this run, in order
    read,           \* this run's JSON file read: mode, content found, stages attempted
    messages,       \* st.error / st.warning texts shown by this run
    encoderCalls,   \* the encoders this run invoked, in order
    downloads,      \* the download buttons this run rendered
    crashed,        \* an exception left the script
    prevFetched     \* the run before this one fetched and offered exports

widgets == <<url, method, headers_input, json_input, uploaded_file, json_path>>
locals == <<headers, json_body, df>>
outputs == <<response, fetchArgs, assigned, read, messages, encoderCalls, downloads,
             crashed>>
vars == <<pc, trigger, widgets, locals, outputs, prevFetched>>

Triggers == {"load", "edit", "fetch"} \cup Formats

new_run_df_kept(old) == old

\* df = pd.DataFrame()
new_run_df(old) == EmptyDataFrame

Init ==
    /\ pc = "tab1"
    /\ trigger = "load"
    /\ url = "" /\ method = "GET"
    /\ headers_input = "{}" /\ json_input = "{}"
    /\ uploaded_file = NoFile /\ json_path = ""
    /\ headers = None /\ json_body = None
    /\ df = new_run_df(EmptyDataFrame)
    /\ response = NoResponse /\ fetchArgs = NoCall
    /\ assigned = <<>> /\ read = NoRead
    /\ messages = {} /\ encoderCalls = <<>> /\ downloads = {}
    /\ crashed = FALSE
    /\ prevFetched = FALSE

\* Streamlit re-executes the script from its first line
Rerun(t) ==
    /\ pc = "idle"
    /\ pc' = "tab1"
    /\ trigger' = t
    /\ headers' = None /\ json_body' = None
    /\ df' = new_run_df(df)
    /\ response' = NoResponse /\ fetchArgs' = NoCall
    /\ assigned' = <<>> /\ read' = NoRead
    /\ messages' = {} /\ encoderCalls' = <<>> /\ downloads' = {}
    /\ crashed' = FALSE
    /\ prevFetched' = (fetchArgs.called /\ downloads # {})

EditUrl ==
    \E u \in UrlTexts \ {url} :
        /\ Rerun("edit") /\ url' = u
        /\ UNCHANGED <<method, headers_input, json_input, uploaded_file, json_path>>

SelectMethod ==
    \E m \in Methods \ {method} :
        /\ Rerun("edit") /\ method' = m
        /\ UNCHANGED <<url, headers_input, json_input, uploaded_file, json_path>>

EditHeaders ==
    \E t \in JsonTexts \ {headers_input} :
        /\ Rerun("edit") /\ headers_input' = t
        /\ UNCHANGED <<url, method, json_input, uploaded_file, json_path>>

EditBody ==
    \E t \in JsonTexts \ {json_input} :
        /\ Rerun("edit") /\ json_input' = t
        /\ UNCHANGED <<url, method, headers_input, uploaded_file, json_path>>

UploadFile ==
    \E f \in (UploadedFiles \cup {NoFile}) \ {uploaded_file} :
        /\ Rerun("edit") /\ uploaded_file' = f
        /\ UNCHANGED <<url, method, headers_input, json_input, json_path>>

EditPath ==
    \E p \in {"", "p"} \ {json_path} :
        /\ Rerun("edit") /\ json_path' = p
        /\ UNCHANGED <<url, method, headers_input, json_input, uploaded_file>>

PressFetch == Rerun("fetch") /\ UNCHANGED widgets

PressDownload == \E f \in downloads : Rerun(f) /\ UNCHANGED widgets

\* with tab1: input collection and the Fetch Data button
Tab1 ==
    /\ pc = "tab1"
    /\ headers' = parse_or_none(headers_input)
    /\ json_body' = parse_or_none(json_input)
    /\ IF trigger = "fetch" /\ url # ""
       THEN \E net \in Responses :
              LET r == fetch_api_data(url, method, headers', json_body', net)
              IN  /\ response' = net
                  /\ fetchArgs' = [called |-> TRUE, url |-> url, method |-> method,
                                   headers |-> headers', json_body |-> json_body']
                  /\ IF r.raised
                     THEN /\ crashed' = TRUE /\ pc' = "idle"
                          /\ UNCHANGED <<df, assigned, messages>>
                     ELSE /\ df' = r.df
                          /\ assigned' = Append(assigned, "fetch")
                          /\ messages' = IF r.error
                                         THEN messages \cup {"Error fetching API"}
                                         ELSE messages
                          /\ crashed' = crashed /\ pc' = "tab2"
       ELSE /\ messages' = IF trigger = "fetch"
                           THEN messages \cup {"Please enter an API URL."}
                           ELSE messages
            /\ pc' = "tab2"
            /\ UNCHANGED <<df, response, fetchArgs, assigned, crashed>>
    /\ UNCHANGED <<trigger, widgets, read, encoderCalls, downloads, prevFetched>>

\* the end of a try block of tab2: assign df, or show the outer except's error
Settle(r, mode, text) ==
    IF r.exc = "none"
    THEN /\ df' = r.df
         /\ assigned' = Append(assigned, mode)
         /\ messages' = messages
    ELSE /\ df' = df
         /\ assigned' = assigned
         /\ messages' = messages \cup {text}

\* with tab2: the uploaded file, else the local path
Tab2 ==
    /\ pc = "tab2"
    /\ IF uploaded_file # NoFile
       THEN IF uploaded_file.ext = "json"
            THEN LET r == upload_json(uploaded_file.lines)
                 IN  /\ read' = [mode |-> "upload", exists |-> TRUE,
                                 lines |-> uploaded_file.lines, stages |-> r.stages]
                     /\ Settle(r, "upload", "Error reading uploaded file")
            ELSE /\ read' = read
                 /\ Settle(read_grid(uploaded_file.grid), "upload",
                           "Error reading uploaded file")
       ELSE IF json_path # ""
       THEN \E c \in PathContents :
              LET r == path_json(c)
              IN  /\ read' = [mode |-> "path", exists |-> c.exists, lines |-> c.lines,
                              stages |-> r.stages]
                  /\ Settle(r, "path", "Error reading JSON file")
       ELSE UNCHANGED <<df, assigned, messages, read>>
    /\ pc' = "export"
    /\ UNCHANGED <<trigger, widgets, headers, json_body, response, fetchArgs,
                   encoderCalls, downloads, crashed, prevFetched>>

\* the index of the first encoder of todo that raises on d, or 0
FirstRaise(todo, d) ==
    IF \E i \in 1..Len(todo) : encoder_raises(todo[i], d)
    THEN CHOOSE i \in 1..Len(todo) :
            /\ encoder_raises(todo[i], d)
            /\ \A j \in 1..Len(todo) : j < i => ~encoder_raises(todo[j], d)
    ELSE 0

export_calls_on_demand(t) == SelectSeq(Encoders, LAMBDA f : f = t)

\* col1..col4: each column calls its encoder and then renders its button,
\* whatever interaction t started the run
export_calls(t) == Encoders

\* Export Section: an encoder that raises ends the script
ExportSection ==
    /\ pc = "export"
    /\ IF export_guard(df)
       THEN LET todo == export_calls(trigger)
                k == FirstRaise(todo, df)
                n == IF k = 0 THEN Len(todo) ELSE k
            IN  /\ encoderCalls' = SubSeq(todo, 1, n)
                /\ downloads' = {todo[i] : i \in {j \in 1..n : j # k}}
                /\ crashed' = (k # 0)
       ELSE UNCHANGED <<encoderCalls, downloads, crashed>>
    /\ pc' = "idle"
    /\ UNCHANGED <<trigger, widgets, locals, response, fetchArgs, assigned, read,
                   messages, prevFetched>>

Next ==
    \/ EditUrl
    \/ SelectMethod
    \/ EditHeaders
    \/ EditBody
    \/ UploadFile
    \/ EditPath
    \/ PressFetch
    \/ PressDownload
    \/ Tab1
    \/ Tab2
    \/ ExportSection

Spec == Init /\ [][Next]_vars

\* ------------------------------------------------------------------ claims
Range(q) == {q[i] : i \in 1..Len(q)}
FetchFailed == response.status # "ok" \/ response.kind = "invalid"
Returned == assigned # <<>> /\ Head(assigned) = "fetch"

\* C1: fetch_api_data never raises to its caller: every call returns (the
\* caller assigns df), and when the network call fails, the status is not a
\* success or the body is no JSON, the error message is shown and the frame
\* returned is the empty one (no rows, no columns).
C1_FetchNeverRaises ==
    fetchArgs.called =>
        /\ Returned
        /\ FetchFailed =>
              /\ "Error fetching API" \in messages
              /\ (pc = "tab2" => df = EmptyDataFrame)

C1_Witness ==
    /\ pc = "tab2" /\ fetchArgs.called
    /\ response.status = "http_error"
    /\ fetchArgs.method = "POST" /\ fetchArgs.headers = None

\* C2: the export controls are offered and an encoder is invoked only if the
\* dataset has at least one row; with a zero-row dataset no encoder is called
\* and no download button is shown.
C2_EmptyGuard ==
    (encoderCalls # <<>> \/ downloads # {}) => Len(df.rows) >= 1

C2_Witness ==
    /\ pc = "idle" /\ assigned = <<"upload">>
    /\ Len(df.rows) = 0 /\ df.columns # {}
    /\ encoderCalls = <<>> /\ downloads = {}

\* C3: no failure leaves a script run as an uncaught exception, whether it is
\* raised in the source adapter or in one of the four export encoders.
C3_NoHardFailure == ~crashed

\* C4: in one run at most one input mode (fetch, uploaded file, local path)
\* executes and assigns the dataset.
C4_OneInputMode == Len(assigned) <= 1

\* C5: every run starts from the empty dataset, a run in which no input mode
\* assigned has the empty dataset, and a run without a Fetch press, uploaded
\* file or local path ends with an empty dataset and no export controls, also
\* right after a run whose fetch succeeded.
C5_NoCarryOver ==
    /\ pc = "tab1" => df = EmptyDataFrame
    /\ assigned = <<>> => df = EmptyDataFrame
    /\ (pc = "idle" /\ trigger # "fetch" /\ uploaded_file = NoFile /\ json_path = "")
          => DfEmpty(df) /\ downloads = {} /\ encoderCalls = <<>>

C5_Witness ==
    /\ pc = "idle" /\ prevFetched
    /\ trigger # "fetch" /\ uploaded_file = NoFile /\ json_path = ""

InvalidText(text) == json_loads_text(text).exc # "none"

\* C6: a headers or body text that is no JSON makes the value None without an
\* exception and without a message, and the run goes on: a Fetch press (with a
\* URL) calls fetch_api_data with that None.
C6_SilentParseFallback ==
    pc # "tab1" =>
        /\ InvalidText(headers_input) => headers = None
        /\ InvalidText(json_input) => json_body = None
        /\ (pc = "tab2" /\ (InvalidText(headers_input) \/ InvalidText(json_input))) =>
              /\ ~crashed
              /\ messages \subseteq {"Error fetching API", "Please enter an API URL."}
              /\ trigger # "fetch" => messages = {}
        /\ (trigger = "fetch" /\ url # "") =>
              /\ fetchArgs.called
              /\ fetchArgs.headers = headers
              /\ fetchArgs.json_body = json_body

C6_Witness ==
    /\ pc = "tab2" /\ InvalidText(headers_input) /\ InvalidText(json_input)
    /\ fetchArgs.called /\ fetchArgs.headers = None /\ fetchArgs.json_body = None

\* C7: for a successful response whose body is a list of records, the frame
\* returned has one row per record, its columns are the union of the records'
\* field names, and a record lacking a field has a null in that column.
C7_RecordsToRows ==
    (pc = "tab2" /\ fetchArgs.called /\ response.status = "ok" /\ response.kind = "list") =>
        LET items == response.items
        IN  /\ Len(df.rows) = Len(items)
            /\ df.columns = UNION {Keys(items[i]) : i \in 1..Len(items)}
            /\ \A i \in 1..Len(items) :
                  /\ DOMAIN df.rows[i] = df.columns
                  /\ \A c \in df.columns :
                        df.rows[i][c] = IF c \in Keys(items[i]) THEN items[i][c] ELSE NaN

C7_Witness ==
    /\ pc = "tab2" /\ fetchArgs.called /\ response.status = "ok" /\ response.kind = "list"
    /\ Len(response.items) = 2
    /\ Keys(response.items[1]) = {"a"} /\ Keys(response.items[2]) = {"b"}
    /\ df.rows[2]["a"] = NaN

\* C8: for a successful response whose body is a scalar or null, the frame
\* returned is the empty one and nothing is reported; a single mapping gives
\* exactly one row.
C8_ShapeDefault ==
    (pc = "tab2" /\ fetchArgs.called /\ response.status = "ok") =>
        /\ response.kind = "scalar" => df = EmptyDataFrame /\ messages = {}
        /\ response.kind = "dict" => Len(df.rows) = 1

C8_Witness ==
    /\ pc = "tab2" /\ fetchArgs.called /\ response.status = "ok"
    /\ response.kind = "scalar" /\ df = EmptyDataFrame

\* json.loads of the file's text raises a JSON decode error
DecodeFails(L) == ~(Len(L) = 1 /\ L[1].kind \in {"obj", "scalar"})
AllObjects(L) == Len(L) >= 1 /\ \A i \in 1..Len(L) : L[i].kind = "obj"

\* C9: in uploaded-.json mode and in local-path mode the single-document parse
\* comes first, the line-delimited parse is attempted if and only if the first
\* failed with a JSON decode error, and a file whose every line is one JSON
\* object gives one row per line, in file order.
C9_LineFallback ==
    (pc \in {"export", "idle"} /\ read.mode # "none") =>
        /\ Head(read.stages) = "single"
        /\ "lines" \in Range(read.stages) <=> (read.exists /\ DecodeFails(read.lines))
        /\ (read.exists /\ AllObjects(read.lines)) =>
              /\ Len(df.rows) = Len(read.lines)
              /\ \A i \in 1..Len(read.lines) :
                    \A c \in Keys(read.lines[i].rec) :
                        c \in df.columns /\ df.rows[i][c] = read.lines[i].rec[c]

C9_Witness ==
    /\ pc = "export" /\ read.mode = "upload"
    /\ Len(read.lines) = 2 /\ AllObjects(read.lines)
    /\ read.lines[1] # read.lines[2]
    /\ read.stages = <<"single", "lines">>
    /\ Len(df.rows) = 2

\* C10 as stated: an encoder runs only in response to the request for its
\* format, one call per button press.
C10_OnDemand ==
    /\ Len(encoderCalls) <= 1
    /\ \A f \in Range(encoderCalls) : trigger = f

\* C10 as amended: the encoders are not run on demand: every run that reaches
\* the export section with a non-empty dataset calls the encoders in the order
\* csv, excel, word, pdf, stopping only when one raises, whatever interaction
\* started the run; a run with an empty dataset calls none.
C10_EagerEncoders ==
    pc = "idle" =>
        IF DfEmpty(df) THEN encoderCalls = <<>>
        ELSE /\ Len(encoderCalls) >= 1
             /\ encoderCalls = SubSeq(Encoders, 1, Len(encoderCalls))
             /\ Len(encoderCalls) < Len(Encoders) => crashed

C10_Witness ==
    /\ pc = "idle" /\ trigger = "fetch" /\ assigned = <<"fetch">>
    /\ encoderCalls = Encoders /\ downloads = Formats

====
